---- MODULE Spec2Model ----
(***************************************************************************)
(* Model of package measuringringbuffer (Jille/measuringringbuffer): a     *)
(* Buffer relays bytes from an io.Reader to an io.Writer through a ring    *)
(* and measures the time spent in Read and in Write.                       *)
(*                                                                         *)
(* Copy starts ReadFrom (the producer) in a goroutine and runs WriteTo     *)
(* (the consumer) itself; Stats may be called at any time.  All three      *)
(* take b.mtx.  An action of this model is one critical section of a       *)
(* goroutine (from acquiring b.mtx to releasing it by Unlock, cond.Wait or *)
(* return) or the code it runs between two critical sections (the          *)
(* blocking Read or Write call with the statements around it).  A          *)
(* goroutine blocked in mtx.Lock is one whose next action has not been     *)
(* taken yet.                                                              *)
(*                                                                         *)
(* Time is an integer clock, now >= 1; the value 0 is the zero time.Time.  *)
(* Errors are sequences of strings: Nil is the nil error, <<"EOF">> is     *)
(* io.EOF and fmt.Errorf("tag: %w", e) puts the tag in front of e.         *)
(***************************************************************************)
EXTENDS Integers, Sequences, FiniteSets, TLC

\* Bounds of the model.  Spec lets the clock run, over small buffers;
\* SpecData and SpecLive stop the clock (no statement of the code branches
\* on a time) and explore larger buffers and sources.
MaxCap == 2      \* Spec: capacities 1..MaxCap
MaxSrc == 1      \* Spec: the source holds 0..MaxSrc bytes
MaxTime == 2     \* Spec: the clock runs from 1 to MaxTime
MaxLiveCap == 2  \* SpecLive: capacities 1..MaxLiveCap
MaxLiveSrc == 3  \* SpecLive: the source holds 0..MaxLiveSrc bytes
MaxDataCap == 3  \* SpecData: capacities 1..MaxDataCap, and BigCap
BigCap == 16     \* SpecData: a capacity with len(buf)/8 > 1
MaxDataSrc == 4  \* SpecData: the source holds 0..MaxDataSrc bytes
MaxReuseCap == 1 \* SpecReuse: capacities 1..MaxReuseCap
MaxReuseSrc == 1 \* SpecReuse: the source holds 0..MaxReuseSrc bytes
MaxCopies == 3   \* SpecReuse: Copy is called at most MaxCopies times

VARIABLES
    \* fields of Buffer
    buf, readIndex, ready, totalBytesRead, readError, writeError,
    timeStarted, lastReadStarted, lastWriteStarted,
    timeSpentReading, timeSpentWriting, totalTimeSpent,
    \* ReadFrom's goroutine: position, the slice buf[rlo:rhi] handed to Read,
    \* n, err, dur, sum and the returned error
    ppc, rlo, rhi, rn, rerr, rdur, rsum, rret,
    \* WriteTo's goroutine: position, the slice buf[wlo:whi], n, err, dur,
    \* sum and the returned error
    wpc, wlo, whi, wn, werr, wdur, wsum, wret,
    \* the environment: the clock, the source's bytes and how many of them
    \* it has returned, the bytes the sink has accepted, whether the sink
    \* ever returned n < len(p) with a nil error
    now, src, srcPos, sunk, shortWrite,
    \* the number of Copy calls made on the Buffer so far
    copies,
    \* the shared fields a goroutine has read or written without holding
    \* b.mtx
    unlocked,
    \* the ReadFrom goroutines of earlier Copy calls that had not returned
    \* when the next Copy was called: the locals of each and the position of
    \* its reader
    others,
    \* the result of the latest Stats call (<<>> before the first)
    snap

bufVars == <<buf, readIndex, ready, totalBytesRead, readError, writeError>>
timeVars == <<timeStarted, lastReadStarted, lastWriteStarted,
              timeSpentReading, timeSpentWriting, totalTimeSpent>>
prodVars == <<ppc, rlo, rhi, rn, rerr, rdur, rsum, rret>>
consVars == <<wpc, wlo, whi, wn, werr, wdur, wsum, wret>>
envVars == <<now, src, srcPos, sunk, shortWrite, copies>>
vars == <<bufVars, timeVars, prodVars, consVars, envVars, unlocked, others,
          snap>>

Min(a, b) == IF a < b THEN a ELSE b

Nil == <<>>
EOF == <<"EOF">>
SrcFail == <<"source failure">>
SinkFail == <<"sink failure">>

\* fmt.Errorf(tag + ": %w", err)
Wrap(tag, err) == <<tag>> \o err

\* len(b.buf)
Cap == Len(buf)

\* make([]byte, size)
New(size) == [i \in 1..size |-> 0]


\* The sources explored: m distinct bytes 1..m, then end-of-input.  The code
\* never looks at a byte's value, so distinct values show every loss,
\* duplication and reordering.
Sources(max) == {[i \in 1..m |-> i] : m \in 0..max}

\* ReadUntil with the wrapped case forgotten: the slice always runs to the end
\* of the storage.
ReadUntilToEnd(ri, rd, c) == c

\* ReadUntil without the branch of lines 122-123: the free space is taken to
\* lie in one piece after readIndex.
ReadUntilNoWrap(ri, rd, c) == ri - rd + c

(***************************************************************************)
(* ReadFrom, lines 121-127: the end of the slice buf[readIndex:until]      *)
(* handed to Read.                                                         *)
(***************************************************************************)
ReadUntil(ri, rd, c) == IF ri > rd THEN c ELSE ri - rd + c

\* WriteSlice with the wrapped case starting at the front of the storage
\* instead of at the oldest filled byte.
WriteSliceFromFront(ri, rd, c) ==
    IF ri - rd >= 0 THEN <<ri - rd, ri>> ELSE <<0, c>>

(***************************************************************************)
(* WriteTo, lines 189-194: the slice <<low, high>> of filled bytes.        *)
(***************************************************************************)
WriteSlice(ri, rd, c) ==
    IF ri - rd >= 0 THEN <<ri - rd, ri>> ELSE <<ri - rd + c, c>>

(***************************************************************************)
(* WriteTo, lines 163-167: maxWrite.                                       *)
(***************************************************************************)
MaxWrite(c) == IF c \div 8 < 1 THEN 1 ELSE c \div 8

\* Truncate cutting one byte late.
TruncateOffByOne(lo, hi, m) == IF hi - lo > m THEN lo + m + 1 ELSE hi

(***************************************************************************)
(* WriteTo, lines 198-200: the high end of buf[lo:hi] after buf[:maxWrite].*)
(***************************************************************************)
Truncate(lo, hi, m) == IF hi - lo > m THEN lo + m ELSE hi

\* Signal that wakes nobody.
SignalLost(pc) == pc

(***************************************************************************)
(* b.cond.Signal() as seen by one goroutine at position pc: it is woken if *)
(* it waits on the condition.  A woken goroutine still has to re-acquire   *)
(* b.mtx.                                                                  *)
(***************************************************************************)
Signal(pc) == IF pc = "wait" THEN "woken" ELSE pc

\* The goroutines of os that wait on b.cond.
Waiting(os) == {i \in DOMAIN os : os[i].pc = "wait"}

(***************************************************************************)
(* b.cond.Signal() called while the goroutines that may wait on b.cond are *)
(* one at position pc and the ReadFrom goroutines os: Signal wakes one of  *)
(* the waiting goroutines, if there is any.  The results are the pairs of  *)
(* pc and os after the call.  Within one Copy os is empty and the only     *)
(* possible waiter is the other side.                                      *)
(***************************************************************************)
CondSignal(pc, os) ==
    (IF pc = "wait" \/ Waiting(os) = {} THEN {<<Signal(pc), os>>} ELSE {})
    \cup {<<pc, [os EXCEPT ![i].pc = Signal(os[i].pc)]>> : i \in Waiting(os)}

(***************************************************************************)
(* time.Duration is a signed integer of fixed width; the model keeps the   *)
(* width small.  MaxDuration is its largest value, AddDur the += of lines  *)
(* 139 and 104, which wraps around, and Since(t) is time.Since(t) and      *)
(* now.Sub(t): the time elapsed since t, and MaxDuration, the value Sub    *)
(* saturates at, for the zero time.                                        *)
(***************************************************************************)
MaxDuration == 7

AddDur(a, b) ==
    LET s == a + b
    IN  IF s > MaxDuration THEN s - 2 * (MaxDuration + 1)
        ELSE IF s < -(MaxDuration + 1) THEN s + 2 * (MaxDuration + 1)
        ELSE s

Since(t) == IF t = 0 THEN MaxDuration ELSE now - t

\* A slice expression b.buf[lo:hi] panics unless 0 <= lo <= hi <= len(b.buf).
InRange(lo, hi, c) == 0 <= lo /\ lo <= hi /\ hi <= c

(***************************************************************************)
(* ReadFrom, lines 142-148: what ReadFrom returns for Read's error.        *)
(***************************************************************************)
ReadFromResult(err) == IF err = EOF THEN Nil ELSE err

(***************************************************************************)
(* WriteTo, lines 181-185: what WriteTo returns when the ring is empty and *)
(* readError is set.                                                       *)
(***************************************************************************)
DrainedResult(err) == IF err = EOF THEN Nil ELSE Wrap("read error", err)

(***************************************************************************)
(* WriteTo, line 211: the error recorded and returned for a sink error.    *)
(***************************************************************************)
WriteErrorOf(err) == Wrap("write error", err)

(***************************************************************************)
(* Stats, lines 88-110: the snapshot, computed under b.mtx.                *)
(***************************************************************************)
StatsOf ==
    [BufferCapacity |-> Cap,
     BufferedBytes |-> ready,
     BytesRead |-> totalBytesRead,
     TotalTime |-> totalTimeSpent
                   + (IF timeStarted # 0 THEN now - timeStarted ELSE 0),
     TimeSpentReading |-> AddDur(timeSpentReading,
                   IF lastReadStarted # 0 THEN now - lastReadStarted ELSE 0),
     TimeSpentWriting |-> timeSpentWriting
                   + (IF lastWriteStarted # 0 THEN now - lastWriteStarted ELSE 0)]

\* New(size) for a size of sizes, a source of sources, and the goroutines
\* Copy is about to start.
InitOf(sizes, sources) ==
    /\ buf \in {New(c) : c \in sizes}
    /\ readIndex = 0 /\ ready = 0 /\ totalBytesRead = 0
    /\ readError = Nil /\ writeError = Nil
    /\ timeStarted = 0 /\ lastReadStarted = 0 /\ lastWriteStarted = 0
    /\ timeSpentReading = 0 /\ timeSpentWriting = 0 /\ totalTimeSpent = 0
    /\ ppc = "start" /\ rlo = 0 /\ rhi = 0 /\ rn = 0 /\ rerr = Nil
    /\ rdur = 0 /\ rsum = 0 /\ rret = Nil
    /\ wpc = "start" /\ wlo = 0 /\ whi = 0 /\ wn = 0 /\ werr = Nil
    /\ wdur = 0 /\ wsum = 0 /\ wret = Nil
    /\ now = 1 /\ src \in sources /\ srcPos = 0 /\ sunk = <<>>
    /\ shortWrite = FALSE
    /\ copies = 1
    /\ unlocked = {}
    /\ others = <<>>
    /\ snap = <<>>

Init == InitOf(1..MaxCap, Sources(MaxSrc))

InitReuse == InitOf(1..MaxReuseCap, Sources(MaxReuseSrc))

InitLive == InitOf(1..MaxLiveCap, Sources(MaxLiveSrc))

InitData == InitOf((1..MaxDataCap) \cup {BigCap}, Sources(MaxDataSrc))

\* A goroutine has panicked (an out-of-range slice expression at line 127,
\* 191 or 193) and nothing recovers: the program has terminated and no
\* goroutine takes another step.
Crashed ==
    \/ ppc = "panic"
    \/ wpc = "panic"
    \/ \E i \in DOMAIN others : others[i].pc = "panic"

----------------------------------------------------------------------------
\* The producer: ReadFrom.

\* ReadFrom returns (sum, e): lines 145, 147, 150, 155.
PReturn(e) == ppc' = "done" /\ rret' = e /\ UNCHANGED <<rlo, rhi>>

\* ReadFrom enters b.cond.Wait(), line 153, which releases b.mtx.
PWait == ppc' = "wait" /\ UNCHANGED <<rlo, rhi, rret>>

\* Lines 121-129 with readIndex = ri and ready = rd: the slice for the next
\* Read; b.mtx is released.  The slice expression of line 127 panics when
\* it is out of range.
PBegin(ri, rd) ==
    IF InRange(ri, ReadUntil(ri, rd, Cap), Cap)
      THEN /\ ppc' = "read"
           /\ rlo' = ri
           /\ rhi' = ReadUntil(ri, rd, Cap)
           /\ UNCHANGED rret
      ELSE /\ ppc' = "panic"
           /\ UNCHANGED <<rlo, rhi, rret>>

\* The loop of lines 152-157 left out: the next Read is started at once.
PFullLoopNoWait(ri, rd) == PBegin(ri, rd)

\* Lines 152-157 and then the next iteration's 121-129, with ready = rd.
PFullLoop(ri, rd) == IF rd = Cap THEN PWait ELSE PBegin(ri, rd)

\* Lines 114-129: ReadFrom's first critical section.
PStart ==
    /\ ~Crashed
    /\ ppc = "start"
    /\ timeStarted' = IF timeStarted = 0 THEN now ELSE timeStarted
    /\ PBegin(readIndex, ready)
    /\ lastReadStarted' = IF ppc' = "read" THEN now ELSE lastReadStarted
    /\ UNCHANGED <<bufVars, lastWriteStarted, timeSpentReading,
                   timeSpentWriting, totalTimeSpent, rn, rerr, rdur, rsum,
                   consVars, envVars, unlocked, others,
                   snap>>

\* The errors a Read that returns n bytes may return with them, for a reader
\* at position pos of the source: end-of-input only once the source's last
\* byte is returned, a failure at any time.
SourceErrsAt(n, pos) ==
    {Nil, SrcFail} \cup (IF pos + n = Len(src) THEN {EOF} ELSE {})

\* SourceErrsAt for the reader of the current Copy.
SourceErrs(n) == SourceErrsAt(n, srcPos)

\* buf after a Read into buf[lo:hi] that returns n, for a reader at position
\* pos of the source: the next n bytes of the source, and (scribble) the
\* rest of the slice used as scratch space, which io.Reader allows.
ReadIntoAt(b, lo, hi, n, scribble, pos) ==
    [i \in 1..Len(b) |->
        IF lo <= i - 1 /\ i - 1 < lo + n THEN src[pos + (i - lo)]
        ELSE IF scribble /\ lo + n <= i - 1 /\ i - 1 < hi THEN 0
        ELSE b[i]]

\* ReadIntoAt for the reader of the current Copy.
ReadInto(b, lo, hi, n, scribble) == ReadIntoAt(b, lo, hi, n, scribble, srcPos)

(***************************************************************************)
(* Line 132, time.Since(b.lastReadStarted), evaluated outside b.mtx.  Only *)
(* ReadFrom writes the field (lines 128 and 140): with one ReadFrom        *)
(* goroutine the value read is the one it stored at line 128.  With other  *)
(* ReadFrom goroutines on the same Buffer the read races with their        *)
(* writes and may see the zero time or any time stored so far.             *)
(***************************************************************************)
ReadDurs ==
    IF others = <<>> THEN {Since(lastReadStarted)}
    ELSE {Since(t) : t \in 0..now}

\* Lines 131-133, outside b.mtx: r.Read(buf), dur and sum.  Line 132 reads
\* b.lastReadStarted here, after the Unlock of line 129.
PRead ==
    /\ ~Crashed
    /\ ppc = "read"
    /\ \E n \in 0..Min(rhi - rlo, Len(src) - srcPos) :
       \E err \in SourceErrs(n) :
       \E scribble \in BOOLEAN :
          /\ buf' = ReadInto(buf, rlo, rhi, n, scribble)
          /\ srcPos' = srcPos + n
          /\ rn' = n
          /\ rerr' = err
          /\ rsum' = rsum + n
    /\ rdur' \in ReadDurs
    /\ unlocked' = unlocked \cup {"lastReadStarted"}
    /\ ppc' = "commit"
    /\ UNCHANGED <<readIndex, ready, totalBytesRead, readError, writeError,
                   timeVars, rlo, rhi, rret, consVars, now, src, sunk,
                   shortWrite, copies, others, snap>>

\* PCommit adding the length of the slice the Read was given, not the
\* count it returned, to totalBytesRead.
PCommitCountSlice ==
    /\ ~Crashed
    /\ ppc = "commit"
    /\ readIndex' = (readIndex + rn) % Cap
    /\ ready' = ready + rn
    /\ totalBytesRead' = totalBytesRead + (rhi - rlo)
    /\ timeSpentReading' = AddDur(timeSpentReading, rdur)
    /\ \E out \in CondSignal(wpc, others) :
          wpc' = out[1] /\ others' = out[2]
    /\ IF rerr # Nil
         THEN readError' = rerr /\ PReturn(ReadFromResult(rerr))
         ELSE /\ UNCHANGED readError
              /\ IF writeError # Nil
                   THEN PReturn(writeError)
                   ELSE PFullLoop(readIndex', ready')
    /\ lastReadStarted' = IF ppc' = "read" THEN now ELSE 0
    /\ UNCHANGED <<buf, writeError, timeStarted, lastWriteStarted,
                   timeSpentWriting, totalTimeSpent, rn, rerr, rdur, rsum,
                   wlo, whi, wn, werr, wdur, wsum, wret, envVars, unlocked,
                   snap>>

\* Lines 135-157 and, when the loop goes on, 121-129: ReadFrom's critical
\* section after a Read.
PCommit ==
    /\ ~Crashed
    /\ ppc = "commit"
    /\ readIndex' = (readIndex + rn) % Cap
    /\ ready' = ready + rn
    /\ totalBytesRead' = totalBytesRead + rn
    /\ timeSpentReading' = AddDur(timeSpentReading, rdur)
    /\ \E out \in CondSignal(wpc, others) :
          wpc' = out[1] /\ others' = out[2]
    /\ IF rerr # Nil
         THEN readError' = rerr /\ PReturn(ReadFromResult(rerr))
         ELSE /\ UNCHANGED readError
              /\ IF writeError # Nil
                   THEN PReturn(writeError)
                   ELSE PFullLoop(readIndex', ready')
    /\ lastReadStarted' = IF ppc' = "read" THEN now ELSE 0
    /\ UNCHANGED <<buf, writeError, timeStarted, lastWriteStarted,
                   timeSpentWriting, totalTimeSpent, rn, rerr, rdur, rsum,
                   wlo, whi, wn, werr, wdur, wsum, wret, envVars, unlocked,
                   snap>>

\* PWake without the check of writeError of lines 154-156.
PWakeUnchecked ==
    /\ ~Crashed
    /\ ppc = "woken"
    /\ PFullLoop(readIndex, ready)
    /\ lastReadStarted' = IF ppc' = "read" THEN now ELSE lastReadStarted
    /\ UNCHANGED <<bufVars, timeStarted, lastWriteStarted, timeSpentReading,
                   timeSpentWriting, totalTimeSpent, rn, rerr, rdur, rsum,
                   consVars, envVars, unlocked, others,
                   snap>>

\* Lines 153-157 from the return of b.cond.Wait(), which re-acquires b.mtx,
\* and, when the loop goes on, 121-129.
PWake ==
    /\ ~Crashed
    /\ ppc = "woken"
    /\ IF writeError # Nil
         THEN PReturn(writeError)
         ELSE PFullLoop(readIndex, ready)
    /\ lastReadStarted' = IF ppc' = "read" THEN now ELSE lastReadStarted
    /\ UNCHANGED <<bufVars, timeStarted, lastWriteStarted, timeSpentReading,
                   timeSpentWriting, totalTimeSpent, rn, rerr, rdur, rsum,
                   consVars, envVars, unlocked, others,
                   snap>>

----------------------------------------------------------------------------
\* The consumer: WriteTo.

\* WReturn without the deferred function's reset of timeStarted.
WReturnTimerLeft(e, ts) ==
    /\ wpc' = "done"
    /\ wret' = e
    /\ totalTimeSpent' = totalTimeSpent + (now - ts)
    /\ timeStarted' = ts
    /\ UNCHANGED <<wlo, whi>>

\* WriteTo returns (sum, e), lines 183, 185, 213, and the deferred function
\* of lines 174-178 stops the total timer, which was started at ts.
WReturn(e, ts) ==
    /\ wpc' = "done"
    /\ wret' = e
    /\ totalTimeSpent' = totalTimeSpent + (now - ts)
    /\ timeStarted' = 0
    /\ UNCHANGED <<wlo, whi>>

\* WriteTo enters b.cond.Wait(), line 187, which releases b.mtx.
WWait(ts) ==
    /\ wpc' = "wait"
    /\ timeStarted' = ts
    /\ UNCHANGED <<wlo, whi, wret, totalTimeSpent>>

\* Lines 189-196 with ready = rd: the slice of filled bytes; b.mtx is
\* released.  A slice expression of lines 191 and 193 that is out of range
\* panics, and the deferred function of lines 174-178 runs.
WBegin(rd, ts) ==
    IF InRange(WriteSlice(readIndex, rd, Cap)[1],
               WriteSlice(readIndex, rd, Cap)[2], Cap)
      THEN /\ wpc' = "write"
           /\ wlo' = WriteSlice(readIndex, rd, Cap)[1]
           /\ whi' = WriteSlice(readIndex, rd, Cap)[2]
           /\ timeStarted' = ts
           /\ UNCHANGED <<wret, totalTimeSpent>>
      ELSE /\ wpc' = "panic"
           /\ totalTimeSpent' = totalTimeSpent + (now - ts)
           /\ timeStarted' = 0
           /\ UNCHANGED <<wlo, whi, wret>>

\* WLoop testing readError before the ring is drained.
WLoopErrorFirst(rd, ts) ==
    IF readError # Nil
      THEN WReturn(DrainedResult(readError), ts)
      ELSE IF rd = 0 THEN WWait(ts) ELSE WBegin(rd, ts)

\* WLoop without the test of readError of lines 181-186.
WLoopNoErrorCheck(rd, ts) == IF rd = 0 THEN WWait(ts) ELSE WBegin(rd, ts)

\* Lines 180-196 with ready = rd: the wait loop and the slice.
WLoop(rd, ts) ==
    IF rd = 0
      THEN IF readError # Nil
             THEN WReturn(DrainedResult(readError), ts)
             ELSE WWait(ts)
      ELSE WBegin(rd, ts)

\* Lines 163-196: WriteTo's first critical section.
WStart ==
    /\ ~Crashed
    /\ wpc = "start"
    /\ WLoop(ready, IF timeStarted = 0 THEN now ELSE timeStarted)
    /\ lastWriteStarted' = IF wpc' = "write" THEN now ELSE lastWriteStarted
    /\ UNCHANGED <<bufVars, lastReadStarted, timeSpentReading,
                   timeSpentWriting, wn, werr, wdur, wsum, prodVars,
                   envVars, unlocked, others,
                   snap>>

\* The bytes of buf[lo:hi].
Slice(b, lo, hi) == [i \in 1..(hi - lo) |-> b[lo + i]]

\* The errors a Write may return: none, a failure, or an end-of-input-like
\* value.
SinkErrs == {Nil, SinkFail, EOF}

\* Lines 198-203, outside b.mtx: the cap on the slice, w.Write(buf), dur and
\* sum.  The sink accepts the first n bytes it is given.  Line 202 reads
\* b.lastWriteStarted here, after the Unlock of line 196.
WWrite ==
    /\ ~Crashed
    /\ wpc = "write"
    /\ whi' = Truncate(wlo, whi, MaxWrite(Cap))
    /\ \E n \in 0..(whi' - wlo) :
       \E err \in SinkErrs :
          /\ sunk' = sunk \o SubSeq(Slice(buf, wlo, whi'), 1, n)
          /\ shortWrite' = (shortWrite \/ (n < whi' - wlo /\ err = Nil))
          /\ wn' = n
          /\ werr' = err
          /\ wsum' = wsum + n
    /\ wdur' = now - lastWriteStarted
    /\ unlocked' = unlocked \cup {"lastWriteStarted"}
    /\ wpc' = "commit"
    /\ UNCHANGED <<bufVars, timeVars, wlo, wret, prodVars, now, src, srcPos,
                   copies, others, snap>>

\* WCommit taking an end-of-input value from the sink for success.
WCommitAbsorbEOF ==
    /\ ~Crashed
    /\ wpc = "commit"
    /\ ready' = ready - wn
    /\ timeSpentWriting' = timeSpentWriting + wdur
    /\ \E out \in CondSignal(ppc, others) :
          ppc' = out[1] /\ others' = out[2]
    /\ IF werr # Nil /\ werr # EOF
         THEN /\ writeError' = WriteErrorOf(werr)
              /\ WReturn(writeError', timeStarted)
         ELSE /\ UNCHANGED writeError
              /\ WLoop(ready', timeStarted)
    /\ lastWriteStarted' = IF wpc' = "write" THEN now ELSE 0
    /\ UNCHANGED <<buf, readIndex, totalBytesRead, readError,
                   lastReadStarted, timeSpentReading, wn, werr, wdur, wsum,
                   rlo, rhi, rn, rerr, rdur, rsum, rret, envVars, unlocked,
                   snap>>

\* WCommit taking every Write to have written the whole slice it was given.
WCommitFullLength ==
    /\ ~Crashed
    /\ wpc = "commit"
    /\ ready' = ready - (whi - wlo)
    /\ timeSpentWriting' = timeSpentWriting + wdur
    /\ \E out \in CondSignal(ppc, others) :
          ppc' = out[1] /\ others' = out[2]
    /\ IF werr # Nil
         THEN /\ writeError' = WriteErrorOf(werr)
              /\ WReturn(writeError', timeStarted)
         ELSE /\ UNCHANGED writeError
              /\ WLoop(ready', timeStarted)
    /\ lastWriteStarted' = IF wpc' = "write" THEN now ELSE 0
    /\ UNCHANGED <<buf, readIndex, totalBytesRead, readError,
                   lastReadStarted, timeSpentReading, wn, werr, wdur, wsum,
                   rlo, rhi, rn, rerr, rdur, rsum, rret, envVars, unlocked,
                   snap>>

\* Lines 205-214 and, when the loop goes on, 180-196: WriteTo's critical
\* section after a Write.
WCommit ==
    /\ ~Crashed
    /\ wpc = "commit"
    /\ ready' = ready - wn
    /\ timeSpentWriting' = timeSpentWriting + wdur
    /\ \E out \in CondSignal(ppc, others) :
          ppc' = out[1] /\ others' = out[2]
    /\ IF werr # Nil
         THEN /\ writeError' = WriteErrorOf(werr)
              /\ WReturn(writeError', timeStarted)
         ELSE /\ UNCHANGED writeError
              /\ WLoop(ready', timeStarted)
    /\ lastWriteStarted' = IF wpc' = "write" THEN now ELSE 0
    /\ UNCHANGED <<buf, readIndex, totalBytesRead, readError,
                   lastReadStarted, timeSpentReading, wn, werr, wdur, wsum,
                   rlo, rhi, rn, rerr, rdur, rsum, rret, envVars, unlocked,
                   snap>>

\* Line 187 from the return of b.cond.Wait(), which re-acquires b.mtx, and
\* the loop of lines 180-196 again.
WWake ==
    /\ ~Crashed
    /\ wpc = "woken"
    /\ WLoop(ready, timeStarted)
    /\ lastWriteStarted' = IF wpc' = "write" THEN now ELSE lastWriteStarted
    /\ UNCHANGED <<bufVars, lastReadStarted, timeSpentReading,
                   timeSpentWriting, wn, werr, wdur, wsum, prodVars,
                   envVars, unlocked, others,
                   snap>>

----------------------------------------------------------------------------
\* Stats folding the read in flight into timeSpentReading.
StatsFolding ==
    /\ ~Crashed
    /\ snap' = <<StatsOf>>
    /\ timeSpentReading' = StatsOf.TimeSpentReading
    /\ lastReadStarted' = IF lastReadStarted # 0 THEN now ELSE 0
    /\ UNCHANGED <<bufVars, timeStarted, lastWriteStarted, timeSpentWriting,
                   totalTimeSpent, prodVars, consVars, envVars, unlocked,
                   others>>

\* Stats, lines 88-110: one critical section, which changes no field.
Stats ==
    /\ ~Crashed
    /\ snap' = <<StatsOf>>
    /\ UNCHANGED <<bufVars, timeVars, prodVars, consVars, envVars, unlocked,
                   others>>

\* The clock advances.
Tick ==
    /\ now < MaxTime
    /\ now' = now + 1
    /\ UNCHANGED <<bufVars, timeVars, prodVars, consVars, src, srcPos, sunk,
                   shortWrite, copies, unlocked, others, snap>>

\* The ReadFrom goroutines on the Buffer once Copy is called again: those of
\* earlier calls and, unless it has returned, the one of the latest call.
Leftover ==
    IF ppc = "done" THEN others
    ELSE Append(others, [pc |-> ppc, lo |-> rlo, hi |-> rhi, n |-> rn,
                         err |-> rerr, dur |-> rdur, sum |-> rsum,
                         ret |-> rret, pos |-> srcPos])

\* A Copy that resets the Buffer to the state New leaves it in before it
\* starts the transfer.
CopyAgainReset ==
    /\ ~Crashed
    /\ wpc = "done"
    /\ copies < MaxCopies
    /\ copies' = copies + 1
    /\ others' = Leftover
    /\ buf' = New(Cap)
    /\ readIndex' = 0 /\ ready' = 0 /\ totalBytesRead' = 0
    /\ readError' = Nil /\ writeError' = Nil
    /\ timeStarted' = 0 /\ lastReadStarted' = 0 /\ lastWriteStarted' = 0
    /\ timeSpentReading' = 0 /\ timeSpentWriting' = 0 /\ totalTimeSpent' = 0
    /\ ppc' = "start" /\ rlo' = 0 /\ rhi' = 0 /\ rn' = 0 /\ rerr' = Nil
    /\ rdur' = 0 /\ rsum' = 0 /\ rret' = Nil
    /\ wpc' = "start" /\ wlo' = 0 /\ whi' = 0 /\ wn' = 0 /\ werr' = Nil
    /\ wdur' = 0 /\ wsum' = 0 /\ wret' = Nil
    /\ srcPos' = 0 /\ sunk' = <<>> /\ shortWrite' = FALSE
    /\ UNCHANGED <<now, src, unlocked, snap>>

(***************************************************************************)
(* Lines 73-76 on a Buffer that Copy was called on before.  The caller can *)
(* call Copy again once the previous call has returned, which is when its  *)
(* WriteTo has returned; the ReadFrom goroutine of line 74 may still be    *)
(* running then and goes on beside the new one.  Copy starts a new         *)
(* ReadFrom goroutine and a new WriteTo, each with fresh locals, on a      *)
(* fresh reader of the same data and a fresh sink.  No statement of Copy,  *)
(* ReadFrom or WriteTo tests or resets a field of the Buffer before the    *)
(* transfer starts.                                                        *)
(***************************************************************************)
CopyAgain ==
    /\ ~Crashed
    /\ wpc = "done"
    /\ copies < MaxCopies
    /\ copies' = copies + 1
    /\ others' = Leftover
    /\ ppc' = "start" /\ rlo' = 0 /\ rhi' = 0 /\ rn' = 0 /\ rerr' = Nil
    /\ rdur' = 0 /\ rsum' = 0 /\ rret' = Nil
    /\ wpc' = "start" /\ wlo' = 0 /\ whi' = 0 /\ wn' = 0 /\ werr' = Nil
    /\ wdur' = 0 /\ wsum' = 0 /\ wret' = Nil
    /\ srcPos' = 0 /\ sunk' = <<>> /\ shortWrite' = FALSE
    /\ UNCHANGED <<bufVars, timeVars, now, src, unlocked, snap>>

----------------------------------------------------------------------------
\* The ReadFrom goroutines of earlier Copy calls.  They run the code of the
\* producer; o is the record of the goroutine's locals.

\* ReadFrom returns (sum, e): lines 145, 147, 150, 155.  Nothing receives
\* the results of the go statement of line 74 and the locals are gone.
OReturn(o, e) ==
    [pc |-> "done", lo |-> 0, hi |-> 0, n |-> 0, err |-> Nil, dur |-> 0,
     sum |-> 0, ret |-> Nil, pos |-> 0]

\* Lines 121-129 with readIndex = ri and ready = rd.
OBegin(o, ri, rd) ==
    IF InRange(ri, ReadUntil(ri, rd, Cap), Cap)
      THEN [o EXCEPT !.pc = "read", !.lo = ri, !.hi = ReadUntil(ri, rd, Cap)]
      ELSE [o EXCEPT !.pc = "panic"]

\* Lines 152-157 and then the next iteration's 121-129, with ready = rd.
OFullLoop(o, ri, rd) ==
    IF rd = Cap THEN [o EXCEPT !.pc = "wait"] ELSE OBegin(o, ri, rd)

\* Lines 114-129: ReadFrom's first critical section.
OStart ==
    \E i \in DOMAIN others :
       /\ ~Crashed
       /\ others[i].pc = "start"
       /\ timeStarted' = IF timeStarted = 0 THEN now ELSE timeStarted
       /\ others' = [others EXCEPT ![i] = OBegin(@, readIndex, ready)]
       /\ lastReadStarted' = IF others'[i].pc = "read" THEN now
                             ELSE lastReadStarted
       /\ UNCHANGED <<bufVars, lastWriteStarted, timeSpentReading,
                      timeSpentWriting, totalTimeSpent, prodVars, consVars,
                      envVars, unlocked, snap>>

\* Lines 131-133, outside b.mtx: r.Read(buf), dur and sum.
ORead ==
    \E i \in DOMAIN others :
       /\ ~Crashed
       /\ others[i].pc = "read"
       /\ \E n \in 0..Min(others[i].hi - others[i].lo,
                           Len(src) - others[i].pos) :
          \E err \in SourceErrsAt(n, others[i].pos) :
          \E scribble \in BOOLEAN :
          \E d \in ReadDurs :
             /\ buf' = ReadIntoAt(buf, others[i].lo, others[i].hi, n, scribble,
                                  others[i].pos)
             /\ others' = [others EXCEPT ![i] =
                              [@ EXCEPT !.pc = "commit", !.n = n, !.err = err,
                                        !.dur = d, !.sum = @ + n,
                                        !.pos = @ + n]]
       /\ unlocked' = unlocked \cup {"lastReadStarted"}
       /\ UNCHANGED <<readIndex, ready, totalBytesRead, readError, writeError,
                      timeVars, prodVars, consVars, envVars, snap>>

(***************************************************************************)
(* b.cond.Signal() called by one of the goroutines of os while the         *)
(* consumer is at c and the producer of the current Copy at p: it wakes    *)
(* one of the waiting goroutines, if there is any.                         *)
(***************************************************************************)
CondSignal2(c, p, os) ==
    (IF c = "wait" THEN {<<Signal(c), p, os>>} ELSE {})
    \cup (IF c = "wait" /\ p # "wait" /\ Waiting(os) = {} THEN {}
          ELSE {<<c, out[1], out[2]>> : out \in CondSignal(p, os)})

\* Lines 142-157 and, when the loop goes on, 121-129, for the goroutine of
\* record o, with the fields as the commit of lines 136-140 leaves them.
OAfterCommit(o, ri, rd) ==
    IF o.err # Nil THEN OReturn(o, ReadFromResult(o.err))
    ELSE IF writeError # Nil THEN OReturn(o, writeError)
    ELSE OFullLoop(o, ri, rd)

\* Lines 135-157 and, when the loop goes on, 121-129: ReadFrom's critical
\* section after a Read.
OCommit ==
    \E i \in DOMAIN others :
       /\ ~Crashed
       /\ others[i].pc = "commit"
       /\ readIndex' = (readIndex + others[i].n) % Cap
       /\ ready' = ready + others[i].n
       /\ totalBytesRead' = totalBytesRead + others[i].n
       /\ timeSpentReading' = AddDur(timeSpentReading, others[i].dur)
       /\ \E out \in CondSignal2(wpc, ppc, others) :
             /\ wpc' = out[1]
             /\ ppc' = out[2]
             /\ others' = [out[3] EXCEPT ![i] =
                              OAfterCommit(@, readIndex', ready')]
       /\ readError' = IF others[i].err # Nil THEN others[i].err ELSE readError
       /\ lastReadStarted' = IF others'[i].pc = "read" THEN now ELSE 0
       /\ UNCHANGED <<buf, writeError, timeStarted, lastWriteStarted,
                      timeSpentWriting, totalTimeSpent, rlo, rhi, rn, rerr, rdur,
                      rsum, rret, wlo, whi, wn, werr, wdur, wsum, wret, envVars,
                      unlocked, snap>>

\* Lines 153-157 from the return of b.cond.Wait(), which re-acquires b.mtx,
\* and, when the loop goes on, 121-129.
OWake ==
    \E i \in DOMAIN others :
       /\ ~Crashed
       /\ others[i].pc = "woken"
       /\ others' = [others EXCEPT ![i] =
                        IF writeError # Nil THEN OReturn(@, writeError)
                        ELSE OFullLoop(@, readIndex, ready)]
       /\ lastReadStarted' = IF others'[i].pc = "read" THEN now
                             ELSE lastReadStarted
       /\ UNCHANGED <<bufVars, timeStarted, lastWriteStarted, timeSpentReading,
                      timeSpentWriting, totalTimeSpent, prodVars, consVars,
                      envVars, unlocked, snap>>

\* The steps of the ReadFrom goroutines of earlier Copy calls.
NextOthers == OStart \/ ORead \/ OCommit \/ OWake

\* The steps of the two goroutines of Copy and of Stats callers.
NextData ==
    \/ PStart \/ PRead \/ PCommit \/ PWake
    \/ WStart \/ WWrite \/ WCommit \/ WWake
    \/ Stats

Next == NextData \/ Tick

\* The transfer with a running clock.
Spec == Init /\ [][Next]_vars

\* The transfer with the clock stopped, over larger buffers and sources.
SpecData == InitData /\ [][NextData]_vars

\* The steps of a program that may call Copy on the same Buffer again.
NextReuse ==
    \/ PStart \/ PRead \/ PCommit \/ PWake
    \/ WStart \/ WWrite \/ WCommit \/ WWake
    \/ CopyAgain \/ NextOthers

\* Copy calls on one Buffer, one after the other, with the clock stopped.
SpecReuse == InitReuse /\ [][NextReuse]_vars


\* A Read that makes progress: it returns bytes or an error.
PReadProgress == PRead /\ (rn' > 0 \/ rerr' # Nil)

(***************************************************************************)
(* The transfer under fair scheduling, with the clock stopped: a goroutine *)
(* that can take its next step eventually takes it (the Go scheduler runs  *)
(* every runnable goroutine and b.mtx is only held for non-blocking        *)
(* critical sections), every Read and every Write call returns, and a      *)
(* source that is read again and again eventually returns bytes or an      *)
(* error.                                                                  *)
(***************************************************************************)
SpecLive ==
    /\ InitLive
    /\ [][NextData]_vars
    /\ WF_vars(PStart \/ PCommit \/ PWake)
    /\ WF_vars(PRead)
    /\ SF_vars(PReadProgress)
    /\ WF_vars(WStart \/ WCommit \/ WWake)
    /\ WF_vars(WWrite)

----------------------------------------------------------------------------
\* Properties.

\* WriteTo, and so Copy, has returned.
CopyReturned == wpc = "done"

\* C1 (lossless FIFO relay): when Copy returns after a source that ended in
\* end-of-input and a sink that returned no error and accepted every slice
\* in full, the bytes passed to the sink's Write calls, concatenated, are
\* exactly the source's bytes, in order.
C1_Lossless ==
    (CopyReturned /\ readError = EOF /\ writeError = Nil /\ ~shortWrite)
        => sunk = src

\* C1's case: a transfer of more bytes than the ring holds has completed.
C1_Witness ==
    /\ CopyReturned /\ readError = EOF /\ writeError = Nil /\ ~shortWrite
    /\ Len(src) > Cap /\ Cap > 1
    /\ sunk = src

\* C2 (capacity bound): 0 <= ready <= len(buf) in every state, and so in
\* every snapshot Stats returns 0 <= BufferedBytes <= BufferCapacity.
C2_CapacityBound ==
    /\ 0 <= ready /\ ready <= Cap
    /\ snap # <<>> =>
         /\ 0 <= snap[1].BufferedBytes
         /\ snap[1].BufferedBytes <= snap[1].BufferCapacity

\* C2's case: Stats has seen the ring full, with the filled region wrapped
\* around the end of the storage.
C2_Witness ==
    /\ snap # <<>>
    /\ snap[1].BufferedBytes = snap[1].BufferCapacity
    /\ ready = Cap /\ readIndex # 0 /\ Cap > 1

\* C3 (clean end-of-input): under fair scheduling, if the source never
\* fails and the sink never returns an error and accepts at least one byte
\* per Write, Copy eventually returns, with the ring drained, the count of
\* all the source's bytes and a nil error.
C3_CleanEOF ==
    [](rerr # SrcFail /\ werr = Nil /\ (wpc = "commit" => wn >= 1))
        => <>(CopyReturned /\ wret = Nil /\ wsum = Len(src) /\ ready = 0
              /\ readError = EOF)

\* C3's case: Copy has returned nil after relaying a source larger than the
\* ring.
C3_Witness ==
    /\ CopyReturned /\ wret = Nil /\ readError = EOF
    /\ wsum = Len(src) /\ Len(src) > Cap

\* C4 (no deadlock on sink failure): under fair scheduling, once a Write
\* has returned an error, Copy returns that error with the "write error"
\* tag and the producer terminates; a producer that is blocked in
\* cond.Wait at that moment is woken and returns the recorded write error.
C4_NoDeadlockOnSinkFailure ==
    /\ (werr # Nil) ~>
         (CopyReturned /\ wret = <<"write error">> \o werr /\ ppc = "done")
    /\ (werr # Nil /\ ppc = "wait") ~>
         (ppc = "done" /\ rret = <<"write error">> \o werr)

\* C4's case: the producer was waiting for space in a full ring and has
\* been woken by the commit that recorded the sink's error.
C4_Witness == ppc = "woken" /\ writeError # Nil /\ ready = Cap

\* Snapshot s is at least snapshot t in every total.
StatsGeq(s, t) ==
    /\ s.BytesRead >= t.BytesRead
    /\ s.TotalTime >= t.TotalTime
    /\ s.TimeSpentReading >= t.TimeSpentReading
    /\ s.TimeSpentWriting >= t.TimeSpentWriting

\* C5 (snapshot monotonicity): every Stats call returns BytesRead,
\* TotalTime, TimeSpentReading and TimeSpentWriting at least as large as
\* the Stats call before it.
C5_SnapshotMonotonic ==
    [][(snap # <<>> /\ snap' # snap) => StatsGeq(snap'[1], snap[1])]_vars

\* C6 (chunking cap): every slice handed to the sink's Write is non-empty
\* and no longer than max(1, len(buf)/8).
C6_ChunkingCap ==
    wpc = "commit" =>
        /\ whi - wlo >= 1
        /\ whi - wlo <= (IF Cap \div 8 >= 1 THEN Cap \div 8 ELSE 1)

\* C6's case: a Write was handed 2 bytes of a 16-byte ring that held more
\* than 2 contiguous bytes.
C6_Witness ==
    /\ wpc = "commit" /\ Cap \div 8 = 2 /\ whi - wlo = 2
    /\ ready > 2 /\ readIndex - ready >= 0

\* C7 (source failure is surfaced after draining): when Copy returns after
\* a source failure and no sink error, the ring is empty, every byte read
\* (those returned with the error included) has been delivered in order,
\* the count is the number of bytes read and the error is the source's
\* error with the "read error" tag.
C7_SourceFailureAfterDrain ==
    (CopyReturned /\ readError = SrcFail /\ writeError = Nil) =>
        /\ ready = 0
        /\ wsum = totalBytesRead /\ totalBytesRead = srcPos
        /\ sunk = SubSeq(src, 1, srcPos)
        /\ wret = <<"read error", "source failure">>

\* C7's case: the source failed while returning bytes, after the ring had
\* wrapped, and Copy has returned.
C7_Witness ==
    /\ CopyReturned /\ readError = SrcFail /\ writeError = Nil
    /\ rn > 0 /\ srcPos > Cap /\ wsum = srcPos

\* C8 (sink failure is immediate and never absorbed): once a Write has
\* returned an error, whatever its value and byte count, WriteTo makes no
\* further Write call, records the error with the "write error" tag as
\* writeError and returns it with the sum of the byte counts of all Writes.
C8_SinkFailureImmediate ==
    werr # Nil =>
        /\ wpc \in {"commit", "done"}
        /\ wsum = Len(sunk)
        /\ CopyReturned =>
             /\ writeError = <<"write error">> \o werr
             /\ wret = writeError

\* C8's case: a Write returned the end-of-input value with a byte count
\* above 0, and WriteTo returned with bytes left in the ring.
C8_Witness ==
    /\ CopyReturned /\ werr = EOF /\ wn > 0 /\ ready > 0
    /\ wret = <<"write error", "EOF">>

\* The three times of the snapshot Stats would return now.
StatsTimes ==
    <<StatsOf.TotalTime, StatsOf.TimeSpentReading, StatsOf.TimeSpentWriting>>

\* The three phase-start timestamps are cleared.
TimersCleared ==
    timeStarted = 0 /\ lastReadStarted = 0 /\ lastWriteStarted = 0

\* C9 as claimed (final snapshot is fixed): once Copy has returned, in any
\* outcome, the three phase-start timestamps are cleared.
C9_ClearedWhenCopyReturned == CopyReturned => TimersCleared

\* C9 as amended: once ReadFrom and WriteTo have both returned, the three
\* phase-start timestamps are cleared and the times Stats returns no longer
\* change, however far the clock advances.
C9_FixedWhenBothReturned ==
    /\ []((CopyReturned /\ ppc = "done") => TimersCleared)
    /\ [][(CopyReturned /\ ppc = "done") => StatsTimes' = StatsTimes]_vars

\* C9's case: both sides have returned after a sink failure, Stats has been
\* called and the clock has advanced since the consumer stopped.
C9_Witness ==
    /\ CopyReturned /\ ppc = "done" /\ writeError # Nil
    /\ snap # <<>> /\ snap[1].TotalTime = totalTimeSpent
    /\ now > 1 /\ totalTimeSpent < now - 1

\* C10 (Stats does not disturb the transfer): a Stats call changes no field
\* of the Buffer and no step of the producer or the consumer; it only
\* returns a snapshot.
C10_StatsFrame ==
    [][snap' # snap =>
         UNCHANGED <<bufVars, timeVars, prodVars, consVars, envVars,
                     unlocked, others>>]_vars

\* C10's case: Stats was called while a Read and a Write were both in
\* flight and the clock had advanced.
C10_Witness ==
    /\ snap # <<>> /\ ppc = "read" /\ wpc = "write"
    /\ snap[1].TimeSpentReading > 0 /\ snap[1].BufferedBytes > 0

\* C11 (as stated): a one-shot guard rejects a second Copy on the same
\* Buffer: however far the caller gets with it, neither goroutine of a
\* second Copy ever reads from the source, writes to the sink or returns.
C11_SecondCopyRejected ==
    copies > 1 => (ppc = "start" /\ wpc = "start")

\* C11 (amended): single use is left to the caller.  A second Copy on the
\* same Buffer is started without any field of the Buffer being reset: the
\* ring indices, the byte total, the recorded errors and the accumulated
\* times of the first transfer are all still there, and an error of the
\* first transfer is still recorded in every state of the second.
C11_ReuseKeepsStaleState ==
    [][/\ copies' # copies => UNCHANGED <<bufVars, timeVars>>
       /\ copies' > 1 => (readError' # Nil \/ writeError' # Nil)]_vars

\* The first Copy delivered a non-empty source up to its end-of-input; the
\* second WriteTo found that readError still recorded and returned (0, nil)
\* with nothing delivered.
C11_Witness ==
    /\ copies = 2 /\ CopyReturned /\ wret = Nil /\ wsum = 0
    /\ Len(src) > 0 /\ readError = EOF /\ sunk = <<>>

\* Index i of b.buf (counted from 0) is outside the filled region: the
\* producer may store a byte there.
IsFree(i) == ((i - readIndex + Cap) % Cap) < Cap - ready

\* Index i of b.buf (counted from 0) holds a byte that was read and is not
\* yet written out.
IsFilled(i) == ((i - (readIndex - ready) + 2 * Cap) % Cap) < ready

\* C12: while the producer is inside r.Read its slice is a non-empty range
\* of free indices that ends at or before len(b.buf); while the consumer is
\* inside w.Write its slice is a non-empty range of filled indices that ends
\* at or before len(b.buf); when both are inside their calls the two ranges
\* have no index in common.
C12_DisjointRegions ==
    /\ ppc = "read" =>
          /\ 0 <= rlo /\ rlo < rhi /\ rhi <= Cap
          /\ \A i \in rlo..(rhi - 1) : IsFree(i)
    /\ wpc = "write" =>
          /\ 0 <= wlo /\ wlo < whi /\ whi <= Cap
          /\ \A i \in wlo..(whi - 1) : IsFilled(i)
    /\ (ppc = "read" /\ wpc = "write") =>
          (rlo..(rhi - 1)) \cap (wlo..(whi - 1)) = {}

\* Both calls are in flight on a wrapped ring: the filled region runs over
\* the end of the array, the Write slice is its part up to the end and the
\* Read slice lies right before it.
C12_Witness ==
    /\ ppc = "read" /\ wpc = "write"
    /\ Cap >= 3 /\ rlo > 0 /\ rhi = wlo /\ whi = Cap
    /\ ready > whi - wlo

\* C13: the slice of every Read is computed, under the lock, non-empty and
\* at most len(b.buf) - ready long, and no Read is in flight on a full
\* ring; no Write is in flight on an empty ring and every Write slice is
\* non-empty and at most ready long; with a full ring and no error
\* recorded the producer is in b.cond.Wait; with an empty ring and no
\* readError recorded a consumer that is in its loop is in b.cond.Wait.
C13_BackPressure ==
    /\ [](/\ ppc = "read" => (ready < Cap /\ 1 <= rhi - rlo)
          /\ wpc = "write" =>
                (ready >= 1 /\ 1 <= whi - wlo /\ whi - wlo <= ready)
          /\ (ready = Cap /\ readError = Nil /\ writeError = Nil) =>
                ppc \in {"wait", "woken"}
          /\ (ready = 0 /\ readError = Nil /\ wpc \notin {"start", "done"}) =>
                wpc \in {"wait", "woken"})
    /\ [][(ppc # "read" /\ ppc' = "read") =>
             (1 <= rhi' - rlo' /\ rhi' - rlo' <= Cap - ready')]_vars

\* The ring is full and the producer waits while the consumer is inside a
\* Write.
C13_Witness ==
    ready = Cap /\ Cap > 1 /\ ppc = "wait" /\ wpc = "write"

\* C14 (no lost wake-up): a goroutine is never left in b.cond.Wait while
\* the condition it waits for holds (the consumer waits only on an empty
\* ring with no readError, the producer only on a full ring with no
\* writeError); and under fair scheduling, when the consumer waits and the
\* producer is about to commit a Read that returned bytes or an error, the
\* consumer eventually leaves its wait loop (to a Write or a return), and
\* when the producer waits and the consumer is about to commit a Write that
\* took bytes or failed, the producer eventually leaves its wait loop.
C14_NoLostWakeup ==
    /\ [](wpc = "wait" => (ready = 0 /\ readError = Nil))
    /\ [](ppc = "wait" => (ready = Cap /\ writeError = Nil))
    /\ (wpc = "wait" /\ ppc = "commit" /\ (rn >= 1 \/ rerr # Nil))
          ~> (wpc \in {"write", "done"})
    /\ (ppc = "wait" /\ wpc = "commit" /\ (wn >= 1 \/ werr # Nil))
          ~> (ppc \in {"read", "done"})

\* The consumer was waiting on an empty ring and the commit of a Read has
\* signalled it.
C14_Witness ==
    wpc = "woken" /\ ready >= 1 /\ readError = Nil /\ ppc \in {"read", "wait"}

\* C15 (short writes): the slice of a Write in flight holds the bytes of
\* the stream that follow the ones delivered so far; and when WriteTo
\* commits a Write that returned a nil error and n smaller than the length
\* of its slice, ready drops by exactly n, no error is recorded, WriteTo
\* does not return and the next Write gets a slice that starts n bytes
\* after the previous one.
C15_ShortWrite ==
    /\ [](wpc = "write" =>
            Slice(buf, wlo, whi)
              = SubSeq(src, Len(sunk) + 1, Len(sunk) + whi - wlo))
    /\ [][(wpc = "commit" /\ wpc' # "commit" /\ werr = Nil
             /\ wn < whi - wlo) =>
            (/\ ready' = ready - wn
             /\ writeError' = Nil
             /\ wpc' = "write"
             /\ wlo' = wlo + wn)]_vars

\* The sink took one byte of a two-byte slice and returned no error; the
\* commit left the other byte in the ring and the next Write is in flight
\* on a slice that starts with it.
C15_Witness ==
    /\ shortWrite /\ wpc = "write" /\ wn = 1 /\ werr = Nil
    /\ MaxWrite(Cap) > 1 /\ wlo = 1 /\ Len(sunk) = 1 /\ ready >= 2

\* C16 (lock discipline): no goroutine reads or writes a shared field of the
\* Buffer without holding b.mtx.
C16_LockDiscipline == unlocked = {}

\* C17 (byte conservation): unless a Write has returned and its count is
\* not committed yet, totalBytesRead is the number of bytes the sink has
\* taken plus ready, WriteTo's sum is the number of bytes the sink has
\* taken, and a Stats call would report BytesRead equal to that number plus
\* BufferedBytes; unless a Read has returned and its count is not committed
\* yet, ReadFrom's sum is totalBytesRead, also when ReadFrom has returned.
C17_ByteConservation ==
    /\ wpc # "commit" =>
          /\ totalBytesRead = Len(sunk) + ready
          /\ StatsOf.BytesRead = Len(sunk) + StatsOf.BufferedBytes
    /\ wsum = Len(sunk)
    /\ ppc # "commit" => rsum = totalBytesRead
    /\ ppc = "commit" => rsum = totalBytesRead + rn

\* ReadFrom has returned its count while bytes are both delivered and still
\* buffered, after a Read that filled less than its slice.
C17_Witness ==
    /\ ppc = "done" /\ wpc = "write" /\ ready > 0 /\ Len(sunk) > 0
    /\ rsum = totalBytesRead /\ rn < rhi - rlo /\ totalBytesRead > Cap

\* C18 (deadlock freedom): the producer and the consumer are never both
\* blocked in b.cond.Wait with no signal pending, and neither is blocked
\* there with no signal pending once the other has returned.
C18_NoDeadlock ==
    /\ ~(ppc = "wait" /\ wpc = "wait")
    /\ ppc = "wait" => wpc # "done"
    /\ wpc = "wait" => ppc # "done"

\* Both goroutines are inside b.cond.Wait: the consumer went to wait on the
\* empty ring, one Read filled the whole ring and signalled it, and the
\* producer went to wait on the full ring.
C18_Witness ==
    ppc = "wait" /\ wpc = "woken" /\ ready = Cap /\ Cap > 1

\* C19 (phase times are bounded by the total time): in every snapshot Stats
\* returns, TimeSpentReading <= TotalTime and TimeSpentWriting <= TotalTime.
C19_PhaseBounded ==
    snap # <<>> =>
        /\ snap[1].TimeSpentReading <= snap[1].TotalTime
        /\ snap[1].TimeSpentWriting <= snap[1].TotalTime

\* C20 (index and slice bounds): 0 <= readIndex < len(b.buf) and
\* 0 <= ready <= len(b.buf); readIndex is the number of bytes read so far
\* modulo len(b.buf); the slice of ReadFrom starts at readIndex and the
\* slices of both ReadFrom and WriteTo have 0 <= low <= high <= len(b.buf),
\* so that no slice expression panics; a commit of ReadFrom moves readIndex
\* by the count the Read returned, modulo len(b.buf).
C20_IndexBounds ==
    /\ [](/\ ~Crashed
          /\ 0 <= readIndex /\ readIndex < Cap
          /\ 0 <= ready /\ ready <= Cap
          /\ readIndex = totalBytesRead % Cap
          /\ ppc \in {"read", "commit"} =>
                (rlo = readIndex /\ 0 <= rlo /\ rlo <= rhi /\ rhi <= Cap)
          /\ wpc \in {"write", "commit"} =>
                (0 <= wlo /\ wlo <= whi /\ whi <= Cap))
    /\ [][(ppc = "commit" /\ ppc' # "commit") =>
             readIndex' = (readIndex + rn) % Cap]_vars

\* The ring has wrapped: more bytes were read than it holds, the Write in
\* flight has the slice up to the end of the array and the Read in flight a
\* slice that ends before it.
C20_Witness ==
    /\ totalBytesRead > Cap /\ Cap > 1 /\ readIndex > 0
    /\ ppc = "read" /\ wpc = "write" /\ whi = Cap /\ rhi < Cap

=============================================================================
